---- MODULE Spec2Model ----
(***************************************************************************)
(* BlockTalk: one session to a node.                                       *)
(*   - Connection::connect      (blocktalk/src/connection.rs)              *)
(*   - Connection::disconnect   (blocktalk/src/connection.rs)              *)
(*   - BlockTalk::init / init_with / clone / disconnect / drop  (lib.rs)   *)
(* The capnp clients are not Send, so every future of a session runs on    *)
(* one thread (spawn_local): the code between two awaits is one step.      *)
(***************************************************************************)
EXTENDS Integers, Sequences, FiniteSets

\* ---------------------------------------------------------------- bounds
MaxHandles == 3            \* BlockTalk values (init + clones) of the session
MaxChainClones == 1        \* Arc clones of the chain facade kept by the user
MaxEvents == 3             \* chain events the node issues to one subscription

\* ------------------------------------------------------- program constants
BlockReservedWeight == 4000

Handles == 1..MaxHandles
Caps == {"capA", "capB"}   \* capability identities the node may hand out
Errs == {"e1", "e2"}       \* error payloads a failing await may yield

VARIABLES
    pc,             \* position of the connect future
    entry,          \* "none" | "init" | "init_with": which constructor runs
    sent,           \* bootstrap requests sent, in order
    recv,           \* bootstrap responses received, in order
    locals,         \* capabilities bound by connect so far
    connectResult,  \* what connect returned to its caller
    pump,           \* the spawned RPC task
    pumpSpawned,    \* number of spawn_local(rpc) calls
    rpc_handle,     \* the JoinHandle of the RPC task
    disconnector,   \* the Disconnector of the RPC system
    discAwaits,     \* number of times the disconnector was awaited
    pumpJoins,      \* number of times the RPC task was joined
    conn,           \* the Connection value, once built
    strong,         \* strong count of the Arc<Connection>
    chainStrong,    \* strong count of the Arc of the chain facade
    facade,         \* the chain facade of init holds an Arc<Connection>
    chainClones,    \* chain() clones kept by the user
    bt,             \* state of each BlockTalk value
    ret,            \* what disconnect returned to each holder
    seen,           \* what each holder met in Arc::try_unwrap
    shutdownResult, \* what Connection::disconnect returned
    registered,     \* a NotificationHandler is registered with the node
    issued,         \* events the node invoked the callback with, in order
    inbound,        \* invocations on the wire, not yet dispatched
    observed,       \* events the handler was invoked with, in order
    replies         \* what each invocation returned to the node

vars == <<pc, entry, sent, recv, locals, connectResult, pump, pumpSpawned,
          rpc_handle, disconnector, discAwaits, pumpJoins, conn, strong,
          chainStrong, facade, chainClones, bt, ret, seen, shutdownResult,
          registered, issued, inbound, observed, replies>>

bootVars == <<sent, recv, locals>>
taskVars == <<pump, pumpSpawned, rpc_handle, disconnector, discAwaits, pumpJoins>>
ownVars == <<conn, strong, chainStrong, facade, chainClones, bt, ret, seen, shutdownResult>>
notifVars == <<registered, issued, inbound, observed, replies>>
sessionVars == <<pc, entry, bootVars, connectResult, taskVars, ownVars>>

\* ------------------------------------------------------------- bootstrap
Steps == <<"construct", "makeThread", "makeChain", "makeMining", "createNewBlock">>

StepIndex(m) == CHOOSE i \in 1..Len(Steps) : Steps[i] = m

NoLocals == [thread_map |-> "null", thread |-> "null", chain_client |-> "null",
             mining_client |-> "null", block_template_client |-> "null"]

\* The local each response is bound to.
ResultLocal(m) ==
    CASE m = "construct" -> "thread_map"
      [] m = "makeThread" -> "thread"
      [] m = "makeChain" -> "chain_client"
      [] m = "makeMining" -> "mining_client"
      [] m = "createNewBlock" -> "block_template_client"

\* The capability each request is made on.
RequestTarget_onRoot(m, l) == "root"

RequestTarget(m, l) ==
    CASE m = "construct" -> "root"
      [] m = "makeThread" -> l.thread_map
      [] m = "makeChain" -> "root"
      [] m = "makeMining" -> "root"
      [] m = "createNewBlock" -> l.mining_client

\* context.set_thread(thread.clone()) is done for makeChain and makeMining only.
RequestContext_freshThread(m, l) ==
    IF m = "makeChain" THEN l.thread
    ELSE IF m = "makeMining" THEN l.thread_map
    ELSE "none"

RequestContext(m, l) ==
    IF m \in {"makeChain", "makeMining"} THEN l.thread ELSE "none"

RequestOptions_noMempool(m) ==
    IF m = "createNewBlock"
    THEN [use_mempool |-> FALSE, block_reserved_weight |-> BlockReservedWeight]
    ELSE "none"

RequestOptions(m) ==
    IF m = "createNewBlock"
    THEN [use_mempool |-> TRUE, block_reserved_weight |-> BlockReservedWeight]
    ELSE "none"

Request(m, l) ==
    [method |-> m, target |-> RequestTarget(m, l),
     context |-> RequestContext(m, l), options |-> RequestOptions(m)]

\* The step that follows a successful one ("ready" after the last).
NextStep(m) ==
    IF StepIndex(m) = Len(Steps) THEN "ready" ELSE Steps[StepIndex(m) + 1]

\* The error connect hands back for a failing step: From::from of the payload.
\* `?` converts with From: an io::Error of UnixStream::connect becomes the
\* transport error, a capnp::Error the connection error.
FromIoError == "TransportError"

FromCapnpError == "ConnectionError"

StepError_generic(m, e) ==
    [ok |-> FALSE, step |-> m, kind |-> FromCapnpError, err |-> "e1"]

StepError(m, e) == [ok |-> FALSE, step |-> m, kind |-> FromCapnpError, err |-> e]

\* No result yet (a future that has not returned).
NoResult == [ok |-> FALSE, kind |-> "none", err |-> "none"]

Init ==
    /\ pc = "idle"
    /\ entry = "none"
    /\ sent = <<>>
    /\ recv = <<>>
    /\ locals = NoLocals
    /\ connectResult = [ok |-> FALSE, step |-> "none", kind |-> "none", err |-> "none"]
    /\ pump = "none"
    /\ pumpSpawned = 0
    /\ rpc_handle = "none"
    /\ disconnector = "none"
    /\ discAwaits = 0
    /\ pumpJoins = 0
    /\ conn = "none"
    /\ strong = 0
    /\ chainStrong = 0
    /\ facade = FALSE
    /\ chainClones = 0
    /\ bt = [h \in Handles |-> "unborn"]
    /\ ret = [h \in Handles |-> NoResult]
    /\ seen = [h \in Handles |-> [strong |-> 0, handles |-> 0]]
    /\ shutdownResult = NoResult
    /\ registered = "none"
    /\ issued = <<>>
    /\ inbound = <<>>
    /\ observed = <<>>
    /\ replies = <<>>

\* BlockTalk::init / init_with call Connection::connect, which starts by
\* awaiting UnixStream::connect.
Call(e) ==
    /\ pc = "idle"
    /\ pc' = "stream"
    /\ entry' = e
    /\ UNCHANGED <<bootVars, connectResult, taskVars, ownVars>>
    /\ UNCHANGED notifVars

CallInit == Call("init")

CallInitWith == Call("init_with")

\* A connect that sends the construct request without spawning the pump.
StreamConnected_noSpawn ==
    /\ pc = "stream"
    /\ pc' = "construct"
    /\ disconnector' = "unused"
    /\ sent' = Append(sent, Request("construct", locals))
    /\ UNCHANGED <<entry, recv, locals, connectResult, pump, pumpSpawned,
                   rpc_handle, discAwaits, pumpJoins, ownVars>>
    /\ UNCHANGED notifVars

\* UnixStream::connect resolved. On success the RPC system is built, its
\* disconnector taken, the pump spawned and the construct request sent.
StreamConnected ==
    /\ pc = "stream"
    /\ pc' = "construct"
    /\ disconnector' = "unused"
    /\ pump' = "running"
    /\ pumpSpawned' = pumpSpawned + 1
    /\ rpc_handle' = "held"
    /\ sent' = Append(sent, Request("construct", locals))
    /\ UNCHANGED <<entry, recv, locals, connectResult, discAwaits, pumpJoins, ownVars>>
    /\ UNCHANGED notifVars

\* A connect that builds the session before it finds the stream unusable.
StreamFailed_afterSpawn ==
    /\ pc = "stream"
    /\ \E e \in Errs :
        connectResult' = [ok |-> FALSE, step |-> "stream", kind |-> FromIoError,
                          err |-> e]
    /\ pc' = "failed"
    /\ pump' = "running"
    /\ pumpSpawned' = pumpSpawned + 1
    /\ rpc_handle' = "dropped"
    /\ disconnector' = "dropped"
    /\ UNCHANGED <<entry, bootVars, discAwaits, pumpJoins, ownVars>>
    /\ UNCHANGED notifVars

\* UnixStream::connect(socket_path).await? failed: connect returns here.
StreamFailed ==
    /\ pc = "stream"
    /\ \E e \in Errs :
        connectResult' = [ok |-> FALSE, step |-> "stream", kind |-> FromIoError,
                          err |-> e]
    /\ pc' = "failed"
    /\ UNCHANGED <<entry, bootVars, taskVars, ownVars>>
    /\ UNCHANGED notifVars

\* BlockTalk::init after a successful connect: the chain facade is built from
\* connection.clone() and keeps that Arc; init_with takes the caller's facade,
\* which has no Arc of this connection.
FacadeHoldsStake(e) == e = "init"

\* The response of the last step arrived: connect wraps the Connection in an
\* Arc and returns it, and the constructor builds the first BlockTalk.
Finish ==
    /\ pc' = "ready"
    /\ sent' = sent
    /\ connectResult' = [ok |-> TRUE, step |-> "ready", kind |-> "none", err |-> "none"]
    /\ conn' = "shared"
    /\ facade' = FacadeHoldsStake(entry)
    /\ strong' = IF FacadeHoldsStake(entry) THEN 2 ELSE 1
    /\ chainStrong' = 1
    /\ bt' = [bt EXCEPT ![1] = "alive"]
    /\ UNCHANGED <<taskVars, chainClones, ret, seen, shutdownResult>>

\* The awaited response of step pc is Ok and carries capability c.
StepOk ==
    /\ pc \in {Steps[i] : i \in 1..Len(Steps)}
    /\ \E c \in Caps :
        /\ recv' = Append(recv, [method |-> pc, ok |-> TRUE, val |-> c])
        /\ locals' = [locals EXCEPT ![ResultLocal(pc)] = c]
    /\ IF NextStep(pc) = "ready"
       THEN Finish
       ELSE /\ pc' = NextStep(pc)
            /\ sent' = Append(sent, Request(NextStep(pc), locals'))
            /\ UNCHANGED <<connectResult, taskVars, ownVars>>
    /\ UNCHANGED entry
    /\ UNCHANGED notifVars

\* A bootstrapper that sends the request of a failed step again.
StepFailed_retry ==
    /\ pc \in {Steps[i] : i \in 1..Len(Steps)}
    /\ \E e \in Errs :
        recv' = Append(recv, [method |-> pc, ok |-> FALSE, val |-> e])
    /\ Len(sent) <= Len(Steps)
    /\ sent' = Append(sent, Request(pc, locals))
    /\ UNCHANGED <<pc, entry, locals, connectResult, taskVars, ownVars>>
    /\ UNCHANGED notifVars

\* A bootstrapper that closes the session it opened before it returns the
\* error of a failed step.
StepFailed_cleanup ==
    /\ pc \in {Steps[i] : i \in 1..Len(Steps)}
    /\ \E e \in Errs :
        /\ recv' = Append(recv, [method |-> pc, ok |-> FALSE, val |-> e])
        /\ connectResult' = StepError(pc, e)
    /\ pc' = "failed"
    /\ locals' = NoLocals
    /\ rpc_handle' = "joined"
    /\ disconnector' = "done"
    /\ discAwaits' = discAwaits + 1
    /\ pumpJoins' = pumpJoins + 1
    /\ pump' = "finished"
    /\ UNCHANGED <<entry, sent, pumpSpawned, ownVars>>
    /\ UNCHANGED notifVars

\* The awaited response of step pc is an error (or its result cannot be
\* read): `?` returns it; the locals, the JoinHandle and the disconnector
\* are dropped, the spawned task keeps running detached.
StepFailed ==
    /\ pc \in {Steps[i] : i \in 1..Len(Steps)}
    /\ \E e \in Errs :
        /\ recv' = Append(recv, [method |-> pc, ok |-> FALSE, val |-> e])
        /\ connectResult' = StepError(pc, e)
    /\ pc' = "failed"
    /\ locals' = NoLocals
    /\ rpc_handle' = "dropped"
    /\ disconnector' = "dropped"
    /\ UNCHANGED <<entry, sent, pump, pumpSpawned, discAwaits, pumpJoins, ownVars>>
    /\ UNCHANGED notifVars

\* ------------------------------------------------------------- ownership
\* #[derive(Clone)] on BlockTalk: every Arc field is cloned.
Clone(h) ==
    /\ bt[h] = "unborn"
    /\ h > 1
    /\ bt[h - 1] # "unborn"
    /\ \E g \in Handles : bt[g] = "alive"
    /\ bt' = [bt EXCEPT ![h] = "alive"]
    /\ strong' = strong + 1
    /\ chainStrong' = chainStrong + 1
    /\ UNCHANGED <<pc, entry, bootVars, connectResult, taskVars, conn, facade,
                   chainClones, ret, seen, shutdownResult>>
    /\ UNCHANGED notifVars

\* Dropping the last Arc<Connection> drops the Connection: no Drop impl, so
\* its fields are just dropped. A dropped JoinHandle detaches the task.
DropConnection ==
    /\ conn' = "dropped"
    /\ rpc_handle' = "dropped"
    /\ disconnector' = "dropped"
    /\ UNCHANGED <<pump, pumpSpawned, discAwaits, pumpJoins>>

\* One Arc of the chain facade goes away; with the last one the facade is
\* dropped, and with it the Arc<Connection> it holds. `released` is the
\* number of Arc<Connection> the caller drops itself.
FacadeDies == facade /\ chainStrong = 1

StrongAfter(released) == strong - released - (IF FacadeDies THEN 1 ELSE 0)

ReleaseCounts(released) ==
    /\ chainStrong' = chainStrong - 1
    /\ facade' = (facade /\ ~FacadeDies)
    /\ strong' = StrongAfter(released)

ReleaseArcs(released) ==
    /\ ReleaseCounts(released)
    /\ IF StrongAfter(released) = 0 /\ conn = "shared"
       THEN DropConnection
       ELSE UNCHANGED <<conn, taskVars>>

\* chain().clone() kept by the user.
ChainClone ==
    /\ \E g \in Handles : bt[g] = "alive"
    /\ chainClones < MaxChainClones
    /\ chainClones' = chainClones + 1
    /\ chainStrong' = chainStrong + 1
    /\ UNCHANGED <<pc, entry, bootVars, connectResult, taskVars, conn, strong,
                   facade, bt, ret, seen, shutdownResult>>
    /\ UNCHANGED notifVars

DropChainClone ==
    /\ chainClones > 0
    /\ chainClones' = chainClones - 1
    /\ ReleaseArcs(0)
    /\ UNCHANGED <<pc, entry, bootVars, connectResult, bt, ret, seen, shutdownResult>>
    /\ UNCHANGED notifVars

\* A BlockTalk (or a disconnect future never polled) goes out of scope.
Drop(h) ==
    /\ bt[h] \in {"alive", "called"}
    /\ bt' = [bt EXCEPT ![h] = "dropped"]
    /\ ReleaseArcs(1)
    /\ UNCHANGED <<pc, entry, bootVars, connectResult, chainClones, ret, seen, shutdownResult>>
    /\ UNCHANGED notifVars

\* ------------------------------------------------------------ disconnect
\* Arc::try_unwrap(this) yields the inner value iff the strong count is 1.
TryUnwrapOk_forced(s) == s >= 1

TryUnwrapOk(s) == s = 1

Ok == [ok |-> TRUE, kind |-> "none", err |-> "none"]

Err(k, e) == [ok |-> FALSE, kind |-> k, err |-> e]

\* The BlockTalk values that still hold their Arc<Connection>.
Holding == {g \in Handles : bt[g] \in {"alive", "called"}}

\* What a holder meets at the try_unwrap of its first poll.
Met == [strong |-> strong, handles |-> Cardinality(Holding)]

\* h.disconnect(): the future takes self; nothing runs before its first poll.
DisconnectCall(h) ==
    /\ bt[h] = "alive"
    /\ bt' = [bt EXCEPT ![h] = "called"]
    /\ UNCHANGED <<pc, entry, bootVars, connectResult, taskVars, conn, strong,
                   chainStrong, facade, chainClones, ret, seen, shutdownResult>>
    /\ UNCHANGED notifVars

\* First poll, sole owner: the Connection is moved out of the Arc and
\* Connection::disconnect runs up to its first await, on the disconnector.
DisconnectLast(h) ==
    /\ bt[h] = "called"
    /\ TryUnwrapOk(strong)
    /\ seen' = [seen EXCEPT ![h] = Met]
    /\ strong' = strong - 1
    /\ conn' = "owned"
    /\ disconnector' = "awaiting"
    /\ discAwaits' = discAwaits + 1
    /\ bt' = [bt EXCEPT ![h] = "awaitDisconnector"]
    /\ UNCHANGED <<pc, entry, bootVars, connectResult, pump, pumpSpawned,
                   rpc_handle, pumpJoins, chainStrong, facade, chainClones, ret,
                   shutdownResult>>
    /\ UNCHANGED notifVars

\* First poll, other owners alive: Err(_) => Ok(()). The Arc handed back by
\* try_unwrap is dropped with the match, self.chain with the function.
DisconnectShared(h) ==
    /\ bt[h] = "called"
    /\ ~TryUnwrapOk(strong)
    /\ seen' = [seen EXCEPT ![h] = Met]
    /\ ret' = [ret EXCEPT ![h] = Ok]
    /\ bt' = [bt EXCEPT ![h] = "returned"]
    /\ ReleaseArcs(1)
    /\ UNCHANGED <<pc, entry, bootVars, connectResult, chainClones, shutdownResult>>
    /\ UNCHANGED notifVars

\* BlockTalk::disconnect returns r: the Connection was consumed by
\* Connection::disconnect, the rest of self (the chain Arc) is dropped.
Return(h, r) ==
    /\ shutdownResult' = r
    /\ ret' = [ret EXCEPT ![h] = r]
    /\ bt' = [bt EXCEPT ![h] = "returned"]
    /\ conn' = "consumed"
    /\ ReleaseCounts(0)

\* self.disconnector.await resolved Ok: go on to self.rpc_handle.await.
DisconnectorOk(h) ==
    /\ bt[h] = "awaitDisconnector"
    /\ disconnector' = "done"
    /\ rpc_handle' = "awaiting"
    /\ bt' = [bt EXCEPT ![h] = "awaitPump"]
    /\ UNCHANGED <<pc, entry, bootVars, connectResult, pump, pumpSpawned,
                   discAwaits, pumpJoins, conn, strong, chainStrong, facade,
                   chainClones, ret, seen, shutdownResult>>
    /\ UNCHANGED notifVars

\* A disconnect that goes on to join the pump after a disconnector error.
DisconnectorErr_thenJoin(h) ==
    /\ bt[h] = "awaitDisconnector"
    /\ disconnector' = "failed"
    /\ rpc_handle' = "awaiting"
    /\ bt' = [bt EXCEPT ![h] = "awaitPump"]
    /\ UNCHANGED <<pc, entry, bootVars, connectResult, pump, pumpSpawned,
                   discAwaits, pumpJoins, conn, strong, chainStrong, facade,
                   chainClones, ret, seen, shutdownResult>>
    /\ UNCHANGED notifVars

\* self.disconnector.await resolved Err(e): map_err(ConnectionError)? returns;
\* the JoinHandle is dropped with the rest of the Connection.
DisconnectorErr(h) ==
    /\ bt[h] = "awaitDisconnector"
    /\ disconnector' = "failed"
    /\ rpc_handle' = "dropped"
    /\ \E e \in Errs : Return(h, Err("ConnectionError", e))
    /\ UNCHANGED <<pc, entry, bootVars, connectResult, pump, pumpSpawned,
                   discAwaits, pumpJoins, chainClones, seen>>
    /\ UNCHANGED notifVars

\* A join that reports success whatever the task did.
JoinResult_swallow(outcome, e) == Ok

\* self.rpc_handle.await resolved: the task returned Ok(()), returned a
\* capnp error, or did not finish (JoinError: panic or cancellation).
JoinResult(outcome, e) ==
    CASE outcome = "ok" -> Ok
      [] outcome = "error" -> Err("ConnectionError", e)
      [] outcome = "join" -> Err("NodeError", e)

PumpAfter(outcome) ==
    CASE outcome = "ok" -> "finished"
      [] outcome = "error" -> "failed"
      [] outcome = "join" -> "panicked"

PumpJoined(h) ==
    /\ bt[h] = "awaitPump"
    /\ rpc_handle' = "joined"
    /\ pumpJoins' = pumpJoins + 1
    /\ \E outcome \in {"ok", "error", "join"}, e \in Errs :
        /\ pump' = PumpAfter(outcome)
        /\ Return(h, JoinResult(outcome, IF outcome = "ok" THEN "none" ELSE e))
    /\ UNCHANGED <<pc, entry, bootVars, connectResult, pumpSpawned,
                   disconnector, discAwaits, chainClones, seen>>
    /\ UNCHANGED notifVars

\* The disconnect future is dropped while it awaits: the Connection it owns
\* goes with it (the JoinHandle is dropped, the task detached), then the
\* chain Arc of self.
CancelDisconnect(h) ==
    /\ bt[h] \in {"awaitDisconnector", "awaitPump"}
    /\ bt' = [bt EXCEPT ![h] = "dropped"]
    /\ conn' = "dropped"
    /\ rpc_handle' = "dropped"
    /\ disconnector' = IF bt[h] = "awaitDisconnector" THEN "dropped" ELSE disconnector
    /\ ReleaseCounts(0)
    /\ UNCHANGED <<pc, entry, bootVars, connectResult, pump, pumpSpawned,
                   discAwaits, pumpJoins, chainClones, ret, seen, shutdownResult>>
    /\ UNCHANGED notifVars

Next ==
    \/ CallInit
    \/ CallInitWith
    \/ StreamConnected
    \/ StreamFailed
    \/ StepOk
    \/ StepFailed
    \/ ChainClone
    \/ DropChainClone
    \/ \E h \in Handles :
        \/ Clone(h)
        \/ Drop(h)
        \/ DisconnectCall(h)
        \/ DisconnectLast(h)
        \/ DisconnectShared(h)
        \/ DisconnectorOk(h)
        \/ DisconnectorErr(h)
        \/ PumpJoined(h)
        \/ CancelDisconnect(h)

Spec == Init /\ [][Next]_vars

\* --------------------------------------------------------- notifications
\* The session can carry calls: the Connection is shared, the pump runs and
\* no shutdown has begun.
SessionOpen == conn = "shared" /\ pump = "running" /\ disconnector = "unused"

\* register(handler): the handler is wrapped in a callback capability and
\* passed to the node in a registration request.
Register ==
    /\ pc = "ready"
    /\ SessionOpen
    /\ registered = "none"
    /\ registered' = "active"
    /\ UNCHANGED <<sessionVars, issued, inbound, observed, replies>>

\* The node invokes the callback capability with its next event.
NodeIssue ==
    /\ registered = "active"
    /\ SessionOpen
    /\ Len(issued) < MaxEvents
    /\ issued' = Append(issued, Len(issued) + 1)
    /\ inbound' = Append(inbound, Len(issued) + 1)
    /\ UNCHANGED <<sessionVars, registered, observed, replies>>

\* The invocation the pump hands to the dispatcher next: the oldest one.
Pick_newest(q) == Len(q)

Pick(q) == 1

Without(q, i) == SubSeq(q, 1, i - 1) \o SubSeq(q, i + 1, Len(q))

\* The registration after the handler returned: as it was.
AfterHandler_teardown(reg, outcome) ==
    IF outcome = "error" THEN "unregistered" ELSE reg

AfterHandler(reg, outcome) == reg

\* Dispatch: the inbound call is decoded into a ChainNotification and the
\* handler invoked with it; its acknowledgment or error completes that call
\* towards the node.
Dispatch ==
    /\ registered = "active"
    /\ SessionOpen
    /\ inbound # <<>>
    /\ \E outcome \in {"ack", "error"} :
        /\ observed' = Append(observed, inbound[Pick(inbound)])
        /\ replies' = Append(replies, [event |-> inbound[Pick(inbound)],
                                       result |-> outcome])
        /\ registered' = AfterHandler(registered, outcome)
    /\ inbound' = Without(inbound, Pick(inbound))
    /\ UNCHANGED <<sessionVars, issued>>

\* unregister(registration): best-effort request to stop the delivery; a
\* no-op when the session is gone.
Unregister ==
    /\ registered = "active"
    /\ registered' = "unregistered"
    /\ UNCHANGED <<sessionVars, issued, inbound, observed, replies>>

\* One session with one BlockTalk and its notification subscription.
NextNotify ==
    \/ CallInit
    \/ CallInitWith
    \/ StreamConnected
    \/ StreamFailed
    \/ StepOk
    \/ StepFailed
    \/ Register
    \/ NodeIssue
    \/ Dispatch
    \/ Unregister
    \/ \E h \in Handles :
        \/ Drop(h)
        \/ DisconnectCall(h)
        \/ DisconnectLast(h)
        \/ DisconnectShared(h)
        \/ DisconnectorOk(h)
        \/ DisconnectorErr(h)
        \/ PumpJoined(h)

SpecNotify == Init /\ [][NextNotify]_vars

\* ------------------------------------------------------------ properties
Born == {h \in Handles : bt[h] # "unborn"}

\* disconnect of h skipped the shutdown because other owners were alive.
Skipped(h) == bt[h] = "returned" /\ seen[h].strong > 1

\* Every BlockTalk of the session called disconnect and got its result, and
\* nobody else (a chain() clone of the user) holds on to the session.
AllDisconnected ==
    /\ pc = "ready"
    /\ \A h \in Born : bt[h] = "returned"
    /\ chainClones = 0

\* C1: if every BlockTalk of a session (from init or init_with, and their
\* clones) calls disconnect exactly once, the shutdown of the transport has
\* been run exactly once, whatever the order of the calls.
C1_TornDownExactlyOnce == AllDisconnected => discAwaits = 1

\* A first poll of disconnect that meets other owners: what it may change.
C2_SharedStep ==
    \A h \in Handles :
        (bt[h] = "called" /\ strong > 1 /\ bt'[h] # "called" /\ bt'[h] # "dropped") =>
            /\ bt'[h] = "returned"
            /\ ret'[h] = Ok
            /\ discAwaits' = discAwaits
            /\ pumpJoins' = pumpJoins
            /\ pump' = pump
            /\ disconnector' \in {disconnector, "dropped"}
            /\ strong' > 0 => /\ conn' = "shared"
                              /\ disconnector' = disconnector
                              /\ rpc_handle' = rpc_handle
                              /\ locals' = locals

\* Who starts a shutdown, and what the others are handed back.
C2_OnlySoleOwnerShutsDown ==
    \A h \in Handles :
        /\ bt[h] \in {"awaitDisconnector", "awaitPump"} => seen[h].strong = 1
        /\ (bt[h] = "returned" /\ seen[h].strong # 1) => ret[h] = Ok
        /\ discAwaits > 0 => \E g \in Handles : seen[g].strong = 1

\* C2: a disconnect that meets other owners returns Ok(()) and touches
\* neither the disconnector nor the pump; whoever else still owns the
\* connection finds it as it was. A shutdown is only ever started by a caller
\* that met a strong count of 1, and a caller that met more never gets an
\* error.
C2_NonLastIsNoOp == []C2_OnlySoleOwnerShutsDown /\ [][C2_SharedStep]_vars

C2_Witness ==
    \E h, g \in Handles :
        /\ h # g
        /\ Skipped(h)
        /\ bt[g] = "alive"
        /\ conn = "shared"
        /\ disconnector = "unused"

\* C3: a BlockTalk returned by init, with no other BlockTalk alive, that
\* calls disconnect runs the shutdown and returns the shutdown's result.
C3_LastInitHandleShutsDown ==
    \A h \in Handles :
        (entry = "init" /\ bt[h] = "returned" /\ seen[h].handles = 1 /\ chainClones = 0) =>
            /\ discAwaits = 1
            /\ shutdownResult # NoResult
            /\ ret[h] = shutdownResult

\* C4: when some disconnect was skipped because other owners were alive,
\* the teardown has been performed by the time the last owner is gone
\* (whether it called disconnect or was merely dropped). Stated for the
\* sessions whose owners are all BlockTalk values (init_with).
C4_DeferredTeardownHappens ==
    (/\ entry = "init_with"
     /\ \E h \in Handles : Skipped(h)
     /\ strong = 0
     /\ conn \in {"dropped", "consumed"}) =>
        discAwaits >= 1

\* C5: once all the holders have made their check, exactly one of them has
\* met itself as the last owner; never two, and never none.
SawLast == {h \in Handles : seen[h].strong = 1}

C5_ExactlyOneSeesLast ==
    /\ Cardinality(SawLast) <= 1
    /\ (pc = "ready" /\ chainClones = 0
        /\ \A h \in Born : bt[h] \notin {"alive", "called", "dropped"}) =>
            Cardinality(SawLast) = 1

\* Connection::thread(), chain_client(), block_template_client(): the fields
\* of the Connection the Arc holds.
thread == locals.thread

chain_client == locals.chain_client

block_template_client == locals.block_template_client

\* C6: the bootstrap requests go out in the order construct, makeThread,
\* makeChain, makeMining, createNewBlock, each on its parent (the root, the
\* thread map construct returned, the mining capability makeMining returned),
\* each only after the Ok response of the one before, and the connection
\* exists only after five Ok responses.
C6_BootstrapOrder ==
    /\ Len(sent) <= Len(Steps)
    /\ Len(recv) <= Len(sent)
    /\ Len(sent) <= Len(recv) + 1
    /\ \A i \in 1..Len(sent) :
        /\ sent[i].method = Steps[i]
        /\ i > 1 => (recv[i - 1].ok /\ recv[i - 1].method = Steps[i - 1])
        /\ sent[i].method \in {"construct", "makeChain", "makeMining"} =>
               sent[i].target = "root"
        /\ sent[i].method = "makeThread" => sent[i].target = recv[1].val
        /\ sent[i].method = "createNewBlock" => sent[i].target = recv[4].val
    /\ (connectResult.ok \/ conn # "none") =>
        /\ Len(recv) = Len(Steps)
        /\ \A i \in 1..Len(recv) : recv[i].ok

C6_Witness ==
    /\ pc = "ready"
    /\ Len(sent) = 5
    /\ sent[5].method = "createNewBlock"
    /\ conn = "shared"
    /\ recv[1].val # recv[4].val

\* C7 as claimed: after a successful bootstrap the makeChain, makeMining and
\* createNewBlock requests all carry the thread capability makeThread returned.
C7_AllThreeCarryThread ==
    pc = "ready" =>
        /\ sent[3].context = recv[2].val
        /\ sent[4].context = recv[2].val
        /\ sent[5].context = recv[2].val
        /\ thread = recv[2].val

\* C7 amended: the makeChain and makeMining requests carry the thread
\* capability makeThread returned, which is the one thread() exposes; the
\* createNewBlock request carries no context.
C7_ChainAndMiningCarryThread ==
    pc = "ready" =>
        /\ sent[3].method = "makeChain" /\ sent[3].context = recv[2].val
        /\ sent[4].method = "makeMining" /\ sent[4].context = recv[2].val
        /\ sent[5].method = "createNewBlock" /\ sent[5].context = "none"
        /\ recv[2].method = "makeThread"
        /\ thread = recv[2].val

C7_Witness ==
    /\ pc = "ready"
    /\ conn = "shared"
    /\ sent[4].context = "capB"
    /\ recv[1].val = "capA"

\* C8: when a bootstrap step fails, connect returns the error of that step,
\* no request of a later step has been sent, and no Connection, no BlockTalk
\* and no capability of the attempt exists; a Connection that exists has its
\* thread, chain and block-template capabilities.
C8_FailureAborts ==
    /\ (pc = "failed" /\ connectResult.step # "stream") =>
        /\ Len(recv) > 0
        /\ ~recv[Len(recv)].ok
        /\ ~connectResult.ok
        /\ connectResult.step = recv[Len(recv)].method
        /\ connectResult.err = recv[Len(recv)].val
        /\ Len(sent) = Len(recv)
        /\ sent[Len(sent)].method = connectResult.step
        /\ conn = "none"
        /\ strong = 0
        /\ Born = {}
        /\ locals = NoLocals
    /\ conn # "none" =>
        /\ connectResult.ok
        /\ thread # "null"
        /\ chain_client # "null"
        /\ block_template_client # "null"

C8_Witness ==
    /\ pc = "failed"
    /\ connectResult.step = "makeMining"
    /\ connectResult.err = "e2"
    /\ Len(sent) = 4

\* C9: during one connect no bootstrap request is issued twice.
C9_NoRetry ==
    \A i, j \in 1..Len(sent) : sent[i].method = sent[j].method => i = j

C9_Witness ==
    /\ pc = "failed"
    /\ connectResult.step = "makeMining"
    /\ Len(sent) = 4
    /\ Len(recv) = 4

\* C11: whatever makes Connection::disconnect fail (the disconnector, the
\* join of the pump task, the error the pump task returned), the error it
\* returns is a ConnectionError.
C11_ShutdownErrorIsConnectionError ==
    (shutdownResult # NoResult /\ ~shutdownResult.ok) =>
        shutdownResult.kind = "ConnectionError"

\* C12: the disconnector is awaited at most once in the life of a session,
\* and only by Connection::disconnect, which owns the Connection it was moved
\* out of the Arc by the last owner.
C12_DisconnectorAtMostOnce ==
    /\ discAwaits <= 1
    /\ discAwaits = Cardinality({h \in Handles : seen[h].strong = 1})
    /\ disconnector \in {"awaiting", "done", "failed"} =>
        /\ discAwaits = 1
        /\ strong = 0
        /\ conn \in {"owned", "consumed", "dropped"}
    /\ conn = "shared" => discAwaits = 0

C12_Witness ==
    /\ discAwaits = 1
    /\ disconnector = "done"
    /\ Cardinality(Born) = MaxHandles
    /\ \E h \in Handles : bt[h] = "dropped"

\* C17: Connection::disconnect awaits the disconnector first and the pump
\* task second: the JoinHandle is awaited only once the disconnector has
\* resolved Ok, and disconnect returns Ok(()) only when the disconnector
\* resolved Ok and the joined pump task had returned Ok.
C17_DisconnectorThenPump ==
    /\ rpc_handle \in {"awaiting", "joined"} => disconnector = "done"
    /\ pumpJoins > 0 => (disconnector = "done" /\ discAwaits = 1)
    /\ shutdownResult.ok =>
        /\ disconnector = "done"
        /\ rpc_handle = "joined"
        /\ pump = "finished"

C17_Witness ==
    /\ shutdownResult = Ok
    /\ pumpJoins = 1
    /\ \E h \in Handles : bt[h] = "returned" /\ seen[h].strong = 1 /\ ret[h] = Ok

\* C19: when the disconnector resolves with an error, disconnect returns it
\* as a ConnectionError at once; the JoinHandle is dropped with the
\* Connection, the pump task is never joined and its result reaches nobody.
C19_DisconnectorErrorSkipsJoin ==
    disconnector = "failed" =>
        /\ ~shutdownResult.ok
        /\ shutdownResult.kind = "ConnectionError"
        /\ shutdownResult.err \in Errs
        /\ rpc_handle = "dropped"
        /\ pumpJoins = 0
        /\ pump = "running"
        /\ conn = "consumed"
        /\ \A h \in Handles : bt[h] \notin {"awaitDisconnector", "awaitPump"}

C19_Witness ==
    /\ disconnector = "failed"
    /\ \E h \in Handles : bt[h] = "returned" /\ ret[h] = Err("ConnectionError", "e2")

\* C20: when connect fails at a bootstrap step, after the pump was spawned,
\* it returns without any shutdown: the disconnector is dropped unawaited and
\* the JoinHandle is dropped, neither awaited nor aborted; the task is left
\* as it was and nothing of the session is left to shut it down with.
C20_FailedBootstrapLeavesPump ==
    (pc = "failed" /\ connectResult.step # "stream") =>
        /\ pumpSpawned = 1
        /\ pump = "running"
        /\ discAwaits = 0
        /\ pumpJoins = 0
        /\ disconnector = "dropped"
        /\ rpc_handle = "dropped"
        /\ conn = "none"
        /\ Born = {}

C20_Witness ==
    /\ pc = "failed"
    /\ connectResult.step = "makeChain"
    /\ pump = "running"
    /\ rpc_handle = "dropped"

\* C14: every createNewBlock request of the bootstrap carries the options
\* use_mempool = true and block_reserved_weight = 4000, whatever the node
\* answered before, and the block-template capability of the Connection (the
\* one block_template_client() clones) is the one that request returned.
C14_FixedBlockOptions ==
    /\ \A i \in 1..Len(sent) :
        sent[i].method = "createNewBlock" =>
            /\ sent[i].options.use_mempool = TRUE
            /\ sent[i].options.block_reserved_weight = 4000
    /\ conn = "shared" =>
        /\ Len(recv) = 5
        /\ recv[5].method = "createNewBlock"
        /\ recv[5].ok
        /\ block_template_client = recv[5].val

C14_Witness ==
    /\ conn = "shared"
    /\ sent[5].method = "createNewBlock"
    /\ block_template_client = "capB"
    /\ recv[4].val = "capA"

\* C18: a session has one pump task: connect spawns it once, when the
\* stream is open and before the first bootstrap request goes out, and
\* nothing else (clone, drop, accessors, disconnect) ever spawns one.
C18_OnePump ==
    /\ pumpSpawned <= 1
    /\ pumpSpawned = 0 <=> (pc \in {"idle", "stream"} \/ connectResult.step = "stream")
    /\ Len(sent) > 0 => pumpSpawned = 1
    /\ pumpSpawned = 0 <=> pump = "none"

C18_Witness ==
    /\ pumpSpawned = 1
    /\ Cardinality(Born) = MaxHandles
    /\ \E h \in Handles : ret[h] = Ok /\ seen[h].strong = 1

\* C13: when the stream cannot be opened, connect fails with a
\* TransportError before anything of a session exists: no RPC system and
\* disconnector, no pump task, no bootstrap request.
C13_StreamFailureIsTransportError ==
    (pc = "failed" /\ connectResult.step = "stream") =>
        /\ ~connectResult.ok
        /\ connectResult.kind = "TransportError"
        /\ pumpSpawned = 0
        /\ pump = "none"
        /\ disconnector = "none"
        /\ rpc_handle = "none"
        /\ sent = <<>>
        /\ recv = <<>>
        /\ conn = "none"
        /\ Born = {}

C13_Witness ==
    /\ pc = "failed"
    /\ connectResult.step = "stream"
    /\ connectResult.err = "e2"
    /\ entry = "init_with"

\* C15: the handler of a subscription observes the events in the order the
\* node issued them: what it has observed is always an initial part of what
\* the node issued, so no event comes before an earlier one.
C15_DeliveryInOrder ==
    /\ Len(observed) <= Len(issued)
    /\ \A i \in 1..Len(observed) : observed[i] = issued[i]

C15_Witness ==
    /\ observed = <<1, 2, 3>>
    /\ issued = <<1, 2, 3>>

\* A step in which the handler signalled an error for an event.
HandlerFailed ==
    /\ Len(replies') = Len(replies) + 1
    /\ replies'[Len(replies')].result = "error"

\* C16: a handler error fails that one invocation towards the node and
\* nothing else: the registration stays, the session is untouched and open,
\* the invocations that follow stay in line to be delivered, and every
\* invocation gets the result of its own handler call.
C16_ErrorStep ==
    HandlerFailed =>
        /\ registered' = registered
        /\ registered' = "active"
        /\ UNCHANGED sessionVars
        /\ SessionOpen'
        /\ SubSeq(replies', 1, Len(replies)) = replies
        /\ issued' = issued
        /\ Len(inbound') = Len(inbound) - 1
        /\ \A e \in 1..MaxEvents :
            (e # replies'[Len(replies')].event /\ \E i \in 1..Len(inbound) : inbound[i] = e)
                => \E i \in 1..Len(inbound') : inbound'[i] = e

C16_OneReplyEach ==
    /\ Len(replies) = Len(observed)
    /\ \A i \in 1..Len(replies) : replies[i].event = observed[i]

C16_HandlerErrorIsolated == []C16_OneReplyEach /\ [][C16_ErrorStep]_vars

C16_Witness ==
    /\ Len(replies) = 3
    /\ replies[2] = [event |-> 2, result |-> "error"]
    /\ replies[3] = [event |-> 3, result |-> "ack"]
    /\ observed = <<1, 2, 3>>
    /\ SessionOpen
====
